---- MODULE Spec2Model ----
(***************************************************************************)
(* Model of src/main.ts: a WebAssembly binary-module encoder (LEB128       *)
(* integers, vectors, sections, instructions, function bodies, the module) *)
(* and the recursive binary search it encodes.                             *)
(*                                                                         *)
(* JavaScript indexes arrays from 0, TLA+ sequences from 1: the source's   *)
(* instruction[0] is instruction[1] here.                                  *)
(***************************************************************************)
EXTENDS Integers, Sequences, FiniteSets, TLC

VARIABLES
    pc,      \* position of the running call: "idle", a function name, "returned", "thrown"
    op,      \* the function last called
    args,    \* its arguments
    n,       \* encodeLEB128U / encodeLEB128S: the local n
    buffer,  \* encodeLEB128U / encodeLEB128S: the local buffer; encoders: bytes emitted so far
    work,    \* encodeInstruction / encodeFuncBody: what is still to be emitted, in order
    start,   \* tsBinarySearch: parameter start of the current call
    end,     \* tsBinarySearch: parameter end of the current call
    result   \* the returned value

vars == <<pc, op, args, n, buffer, work, start, end, result>>

---------------------------------------------------------------------------
(* Bounds of the model *)

\* longest item list given to encodeVector / encodeSection
MaxItems == 2
\* deepest nesting of If instructions in an instruction tree
MaxDepth == 2
\* longest array given to tsBinarySearch
MaxArrLen == 4
\* most bytes an encoding loop may emit before the model stops following it
MaxBytes == 8
\* the integers -MaxSmall .. MaxSmall are all given to the LEB128 encoders
MaxSmall == 200

---------------------------------------------------------------------------
(* JavaScript numbers                                                      *)
(*                                                                         *)
(* A number x is held as x = q * 2^32 + r (+ 1/2 when half), with r in     *)
(* -2^31 .. 2^31-1, so that values of 2^31 and more are representable.     *)
(* r is what ToInt32 makes of x, which is what every bitwise operator of   *)
(* JavaScript works on.                                                    *)

MinInt32 == -2147483647 - 1

Num(i) == [q |-> 0, r |-> i, half |-> FALSE]
Wide(k, i) == [q |-> k, r |-> i, half |-> FALSE]
Frac(i) == [q |-> 0, r |-> i, half |-> TRUE]

\* Number.isInteger(x)
IsInteger(x) == ~x.half

\* x > k, for an integer x and a k with 0 <= k < 2^31
GreaterThan(x, k) == x.q > 0 \/ (x.q = 0 /\ x.r > k)

\* the operand conversion of &, |, >>
ToInt32(x) == x.r

\* the number x as an array element: a plain integer within the int32 range,
\* the number as it is held beyond it
Value(x) == IF x.q = 0 THEN x.r ELSE x

\* bit i of the two's complement integer a
Bit(a, i) == (a \div (2 ^ i)) % 2

RECURSIVE AndBits(_, _, _)
AndBits(a, m, i) ==
    IF i < 0 THEN 0
    ELSE Bit(a, i) * Bit(m, i) * (2 ^ i) + AndBits(a, m, i - 1)

\* a & m, for a mask m in 0..255
BitAnd(a, m) == AndBits(a, m, 7)

\* a | m, for a mask m in 0..255
BitOr(a, m) == a + m - BitAnd(a, m)

\* a >> k (sign-propagating)
ShiftRight(a, k) == a \div (2 ^ k)

---------------------------------------------------------------------------
(* encodeLEB128U, main.ts:19-35 *)

\* one pass through `while (n > 0x7f) {...}`, or the exit `buffer.push(n)`
LEB128UIter(x, buf) ==
    IF GreaterThan(x, 127)
    THEN [n      |-> Num(ShiftRight(ToInt32(x), 7)),
          buffer |-> Append(buf, BitOr(BitAnd(ToInt32(x), 127), 128)),
          done   |-> FALSE]
    ELSE [n      |-> x,
          buffer |-> Append(buf, Value(x)),
          done   |-> TRUE]

RECURSIVE LEB128ULoop(_, _)
LEB128ULoop(x, buf) ==
    LET s == LEB128UIter(x, buf)
    IN  IF s.done THEN s.buffer ELSE LEB128ULoop(s.n, s.buffer)

\* the bytes encodeLEB128U returns for an integer x
encodeLEB128U(x) == LEB128ULoop(x, <<>>)

---------------------------------------------------------------------------
(* encodeLEB128S, main.ts:37-55 *)

\* LEB128SIter with the exit test forgetting the sign bit 0x40 of the byte
LEB128SIterNoSignBit(x, buf) ==
    LET byte == BitAnd(ToInt32(x), 127)
        m    == ShiftRight(ToInt32(x), 7)
    IN  IF m = 0 \/ m = -1
        THEN [n |-> Num(m), buffer |-> Append(buf, byte), done |-> TRUE]
        ELSE [n |-> Num(m), buffer |-> Append(buf, BitOr(byte, 128)), done |-> FALSE]

\* LEB128SIter with the exit test forgetting the negative numbers (n === -1)
LEB128SIterNoNegativeExit(x, buf) ==
    LET byte == BitAnd(ToInt32(x), 127)
        m    == ShiftRight(ToInt32(x), 7)
    IN  IF m = 0 /\ BitAnd(byte, 64) = 0
        THEN [n |-> Num(m), buffer |-> Append(buf, byte), done |-> TRUE]
        ELSE [n |-> Num(m), buffer |-> Append(buf, BitOr(byte, 128)), done |-> FALSE]

\* one pass through `while (true) {...}`
LEB128SIter(x, buf) ==
    LET byte == BitAnd(ToInt32(x), 127)
        m    == ShiftRight(ToInt32(x), 7)
    IN  IF (m = 0 /\ BitAnd(byte, 64) = 0) \/ (m = -1 /\ BitAnd(byte, 64) # 0)
        THEN [n |-> Num(m), buffer |-> Append(buf, byte), done |-> TRUE]
        ELSE [n |-> Num(m), buffer |-> Append(buf, BitOr(byte, 128)), done |-> FALSE]

RECURSIVE LEB128SLoop(_, _)
LEB128SLoop(x, buf) ==
    LET s == LEB128SIter(x, buf)
    IN  IF s.done THEN s.buffer ELSE LEB128SLoop(s.n, s.buffer)

\* the bytes encodeLEB128S returns for an integer x; `n |= 0` first
encodeLEB128S(x) == LEB128SLoop(Num(BitOr(ToInt32(x), 0)), <<>>)

---------------------------------------------------------------------------
(* Enumerations, main.ts:5-15, 115-120, 142-158 *)

i32 == 127
i64 == 126
f32 == 125
f64 == 124
funcRef == 112
externRef == 111

Function == 0
Table == 1
Memory == 2
Global == 3

If == 4
BrIf == 13
Return == 15
Call == 16
Drop == 26
I32Load == 40
I32Const == 65
I32GtS == 74
I32Eq == 70
I32Add == 106
I32Mul == 108
I32DivU == 110
LocalGet == 32
LocalSet == 33
LocalTee == 34

---------------------------------------------------------------------------
(* The encoders, main.ts:1-3 and 57-234                                    *)
(*                                                                         *)
(* An encoder passed as a function value (encodeFn) is passed here as its  *)
(* name; Apply calls it. "valueType" is the arrow function (a) => [a] of   *)
(* encodeFuncType and "local" the arrow function of encodeFuncBody.        *)

\* encodePreamble
encodePreamble == <<0, 97, 115, 109, 1, 0, 0, 0>>

\* (new TextEncoder()).encode of one code point: its UTF-8 bytes
Utf8(cp) ==
    IF cp < 128 THEN <<cp>>
    ELSE IF cp < 2048 THEN <<192 + (cp \div 64), 128 + (cp % 64)>>
    ELSE <<224 + (cp \div 4096), 128 + ((cp \div 64) % 64), 128 + (cp % 64)>>

RECURSIVE TextEncode(_)
\* (new TextEncoder()).encode(name), a name being its sequence of code points
TextEncode(name) ==
    IF name = <<>> THEN <<>> ELSE Utf8(Head(name)) \o TextEncode(Tail(name))

\* JavaScript truthiness of an optional number: undefined, 0 and NaN are falsy
Truthy(rec, field) ==
    /\ field \in DOMAIN rec
    /\ (rec[field].q # 0 \/ rec[field].r # 0 \/ rec[field].half)

RECURSIVE Apply(_, _), flatMap(_, _), encodeInstruction(_)

\* items.flatMap((item) => encodeFn(item))
flatMap(items, encodeFn) ==
    IF items = <<>> THEN <<>>
    ELSE Apply(encodeFn, Head(items)) \o flatMap(Tail(items), encodeFn)

\* the items in the opposite order
Reversed(items) == [k \in 1..Len(items) |-> items[Len(items) + 1 - k]]

\* encodeVector emitting the items last to first
encodeVectorReversed(items, encodeFn) ==
    encodeLEB128U(Num(Len(items))) \o flatMap(Reversed(items), encodeFn)

\* encodeVector
encodeVector(items, encodeFn) ==
    encodeLEB128U(Num(Len(items))) \o flatMap(items, encodeFn)

\* encodeFuncType
encodeFuncType(funcType) ==
    <<96>> \o encodeVector(funcType.paramTypes, "valueType")
           \o encodeVector(funcType.returnTypes, "valueType")

\* encodeSection with the length prefix counting the items, not the bytes
encodeSectionCountsItems(id, items, encodeFn) ==
    LET bytes == encodeVector(items, encodeFn)
    IN  <<id>> \o encodeLEB128U(Num(Len(items))) \o bytes

\* encodeSection with the length prefix counting the id byte too
encodeSectionCountsId(id, items, encodeFn) ==
    LET bytes == encodeVector(items, encodeFn)
    IN  <<id>> \o encodeLEB128U(Num(Len(bytes) + 1)) \o bytes

\* encodeSection
encodeSection(id, items, encodeFn) ==
    LET bytes == encodeVector(items, encodeFn)
    IN  <<id>> \o encodeLEB128U(Num(Len(bytes))) \o bytes

\* encodeLimits
encodeLimits(limits) ==
    IF Truthy(limits, "max")
    THEN <<1>> \o encodeLEB128U(limits.min) \o encodeLEB128U(limits.max)
    ELSE <<0>> \o encodeLEB128U(limits.min)

\* encodeExport
encodeExport(exportEntry) ==
    LET nameBytes == TextEncode(exportEntry.name)
    IN  encodeLEB128U(Num(Len(nameBytes))) \o nameBytes
            \o <<exportEntry.type>> \o encodeLEB128U(exportEntry.index)

\* encodeInstruction
encodeInstruction(instruction) ==
    LET opcode == instruction[1]
    IN  CASE opcode = I32Load ->
               <<opcode>> \o encodeLEB128U(instruction[2])
                          \o encodeLEB128U(instruction[3])
          [] opcode \in {I32GtS, I32Eq, I32Add, I32Mul, I32DivU, Return, Drop} ->
               <<opcode>>
          [] opcode = I32Const ->
               <<opcode>> \o encodeLEB128S(instruction[2])
          [] opcode \in {LocalGet, LocalSet, LocalTee, BrIf, Call} ->
               <<opcode>> \o encodeLEB128U(instruction[2])
          [] opcode = If ->
               <<opcode, instruction[2]>>
                   \o flatMap(instruction[3], "encodeInstruction")
                   \o <<5>>
                   \o flatMap(instruction[4], "encodeInstruction")
                   \o <<11>>

\* encodeFuncBody
encodeFuncBody(body) ==
    LET encodedBody == encodeVector(body.locals, "local")
                           \o flatMap(body.instructions, "encodeInstruction")
                           \o <<11>>
    IN  encodeLEB128U(Num(Len(encodedBody))) \o encodedBody

\* the call encodeFn(item)
Apply(encodeFn, item) ==
    CASE encodeFn = "valueType"         -> <<item>>
      [] encodeFn = "local"             -> encodeLEB128U(item[1]) \o <<item[2]>>
      [] encodeFn = "encodeLEB128U"     -> encodeLEB128U(item)
      [] encodeFn = "encodeFuncType"    -> encodeFuncType(item)
      [] encodeFn = "encodeLimits"      -> encodeLimits(item)
      [] encodeFn = "encodeExport"      -> encodeExport(item)
      [] encodeFn = "encodeInstruction" -> encodeInstruction(item)
      [] encodeFn = "encodeFuncBody"    -> encodeFuncBody(item)

encodeTypeSection(types) == encodeSection(1, types, "encodeFuncType")
encodeFuncSection(typeIndicies) == encodeSection(3, typeIndicies, "encodeLEB128U")
encodeMemorySection(memories) == encodeSection(5, memories, "encodeLimits")
encodeExportSection(exports) == encodeSection(7, exports, "encodeExport")
encodeCodeSection(bodies) == encodeSection(10, bodies, "encodeFuncBody")

---------------------------------------------------------------------------
(* encodeModule, main.ts:259-326 *)

\* "binarySearch" and "memory" as code points
NameBinarySearch == <<98, 105, 110, 97, 114, 121, 83, 101, 97, 114, 99, 104>>
NameMemory == <<109, 101, 109, 111, 114, 121>>

\* the instructions of the exported function, main.ts:280-323
BinarySearchBody ==
    [locals |-> << <<Num(2), i32>> >>,
     instructions |-> <<
        <<LocalGet, Num(2)>>,
        <<LocalGet, Num(3)>>,
        <<I32Add>>,
        <<I32Const, Num(2)>>,
        <<I32DivU>>,
        <<LocalTee, Num(4)>>,
        <<LocalGet, Num(4)>>,
        <<LocalGet, Num(0)>>,
        <<I32Add>>,
        <<I32Const, Num(4)>>,
        <<I32Mul>>,
        <<I32Load, Num(0), Num(0)>>,
        <<LocalTee, Num(5)>>,
        <<LocalGet, Num(1)>>,
        <<I32Eq>>,
        <<BrIf, Num(0)>>,
        <<Drop>>,
        <<I32Const, Num(-1)>>,
        <<LocalGet, Num(4)>>,
        <<LocalGet, Num(2)>>,
        <<I32Eq>>,
        <<BrIf, Num(0)>>,
        <<Drop>>,
        <<LocalGet, Num(1)>>,
        <<LocalGet, Num(5)>>,
        <<I32GtS>>,
        <<If, i32,
          << <<LocalGet, Num(0)>>, <<LocalGet, Num(1)>>, <<LocalGet, Num(4)>>,
             <<LocalGet, Num(3)>>, <<Call, Num(0)>> >>,
          << <<LocalGet, Num(0)>>, <<LocalGet, Num(1)>>, <<LocalGet, Num(2)>>,
             <<LocalGet, Num(4)>>, <<Call, Num(0)>> >> >>
     >>]

\* new Uint8Array(numbers): every element is taken modulo 2^8
Uint8Array(numbers) == [k \in 1..Len(numbers) |-> numbers[k] % 256]

encodeModule ==
  Uint8Array(
    encodePreamble
        \o encodeTypeSection(<< [paramTypes  |-> <<i32, i32, i32, i32>>,
                                 returnTypes |-> <<i32>>] >>)
        \o encodeFuncSection(<<Num(0)>>)
        \o encodeMemorySection(<< [min |-> Num(1)] >>)
        \o encodeExportSection(<<
               [name |-> NameBinarySearch, type |-> Function, index |-> Num(0)],
               [name |-> NameMemory, type |-> Memory, index |-> Num(0)] >>)
        \o encodeCodeSection(<<BinarySearchBody>>))

---------------------------------------------------------------------------
(* tsBinarySearch, main.ts:236-257: one call, which returns or makes the   *)
(* tail call with new bounds                                               *)

\* arr[i], JavaScript index i
At(arr, i) == arr[i + 1]

\* Math.floor((start + end) / 2)
Mid(s, e) == (s + e) \div 2

BinarySearchCall(arr, x, s, e) ==
    LET mid == Mid(s, e)
    IN  IF x = At(arr, mid) THEN [return |-> TRUE, value |-> mid, start |-> s, end |-> e]
        ELSE IF mid = s THEN [return |-> TRUE, value |-> -1, start |-> s, end |-> e]
        ELSE IF x > At(arr, mid)
             THEN [return |-> FALSE, value |-> 0, start |-> mid, end |-> e]
             ELSE [return |-> FALSE, value |-> 0, start |-> s, end |-> mid]

RECURSIVE tsBinarySearch(_, _, _, _)
\* the value tsBinarySearch returns
tsBinarySearch(arr, x, s, e) ==
    LET c == BinarySearchCall(arr, x, s, e)
    IN  IF c.return THEN c.value ELSE tsBinarySearch(arr, x, c.start, c.end)

---------------------------------------------------------------------------
(* The exported function binarySearch as the host runs it: the instructions *)
(* of main.ts:280-323 on a value stack, the locals and the linear memory,   *)
(* and wasmBinarySearch, main.ts:330-346. Values are i32, held signed; the  *)
(* sums and products of the searches stay far inside the i32 range, where   *)
(* i32.add and i32.mul are the integer sum and product.                     *)

\* the array of main.ts:338
DemoArray == <<-4, -2, 0, 2, 8, 13, 21, 54>>

\* i32.div_u: both operands taken as unsigned; a negative a is 2^32 + a,
\* divided in two 16-bit steps (divisors from 1 to 2^15 - 1)
DivU(a, b) ==
    IF a >= 0 THEN a \div b
    ELSE LET hi == (a \div 65536) + 65536
             lo == a % 65536
         IN  (hi \div b) * 65536 + (((hi % b) * 65536 + lo) \div b)

\* buffer[i] = v on a Uint32Array: the word holds v modulo 2^32
Uint32Store(v) == IF v < 0 THEN Wide(1, v) ELSE Num(v)

\* the memory after writeArrayToMemory(arr, 0, memory); it held DemoArray before
\* (main.ts:338), and zeros elsewhere
MemoryWith(arr) ==
    [k \in 1..(IF Len(arr) > Len(DemoArray) THEN Len(arr) ELSE Len(DemoArray)) |->
        IF k <= Len(arr) THEN Uint32Store(arr[k])
        ELSE Uint32Store(DemoArray[k])]

\* i32.load at a byte address that is a multiple of 4
Load(mem, address) ==
    IF address \div 4 + 1 \in DOMAIN mem THEN ToInt32(mem[address \div 4 + 1]) ELSE 0

Top(stack) == stack[Len(stack)]
Pop(stack, k) == SubSeq(stack, 1, Len(stack) - k)

RECURSIVE Zeros(_)
Zeros(k) == IF k = 0 THEN <<>> ELSE <<0>> \o Zeros(k - 1)

RECURSIVE LocalsOf(_)
\* the declared locals, zero at entry
LocalsOf(locals) ==
    IF locals = <<>> THEN <<>>
    ELSE Zeros(Value(Head(locals)[1])) \o LocalsOf(Tail(locals))

RECURSIVE Run(_, _, _), Execute(_, _, _), Invoke(_, _)

\* the instructions run in order, until a branch or a return leaves them
Run(instructions, st, mem) ==
    IF instructions = <<>> \/ st.br >= 0 \/ st.ret THEN st
    ELSE Run(Tail(instructions), Execute(Head(instructions), st, mem), mem)

\* one instruction
Execute(instruction, st, mem) ==
    LET opcode == instruction[1]
        stack == st.stack
        a == stack[Len(stack) - 1]
        b == stack[Len(stack)]
        Push1(v) == [st EXCEPT !.stack = Append(Pop(stack, 1), v)]
        Push2(v) == [st EXCEPT !.stack = Append(Pop(stack, 2), v)]
    IN  CASE opcode = LocalGet ->
               [st EXCEPT !.stack = Append(stack, st.locals[Value(instruction[2]) + 1])]
          [] opcode = LocalSet ->
               [st EXCEPT !.stack = Pop(stack, 1),
                          !.locals[Value(instruction[2]) + 1] = b]
          [] opcode = LocalTee ->
               [st EXCEPT !.locals[Value(instruction[2]) + 1] = b]
          [] opcode = I32Const ->
               [st EXCEPT !.stack = Append(stack, ToInt32(instruction[2]))]
          [] opcode = I32Add -> Push2(a + b)
          [] opcode = I32Mul -> Push2(a * b)
          [] opcode = I32DivU -> Push2(DivU(a, b))
          [] opcode = I32Eq -> Push2(IF a = b THEN 1 ELSE 0)
          [] opcode = I32GtS -> Push2(IF a > b THEN 1 ELSE 0)
          [] opcode = I32Load -> Push1(Load(mem, b + Value(instruction[3])))
          [] opcode = Drop -> [st EXCEPT !.stack = Pop(stack, 1)]
          [] opcode = BrIf ->
               [st EXCEPT !.stack = Pop(stack, 1),
                          !.br = IF b # 0 THEN Value(instruction[2]) ELSE -1]
          [] opcode = Return -> [st EXCEPT !.ret = TRUE]
          [] opcode = Call ->
               \* function 0 is the only function: four parameters, one result
               [st EXCEPT !.stack =
                    Append(Pop(stack, 4),
                           Invoke(SubSeq(stack, Len(stack) - 3, Len(stack)), mem))]
          [] opcode = If ->
               LET inner == Run(IF b # 0 THEN instruction[3] ELSE instruction[4],
                                [st EXCEPT !.stack = <<>>], mem)
               IN  IF inner.ret \/ inner.br > 0
                   THEN [inner EXCEPT !.br = IF inner.ret THEN -1 ELSE inner.br - 1]
                   ELSE [inner EXCEPT !.br = -1,
                                      !.stack = Append(Pop(stack, 1), Top(inner.stack))]

\* a call of the exported function: its result is the top of the stack when
\* the body ends, branches out or returns
Invoke(params, mem) ==
    Top(Run(BinarySearchBody.instructions,
            [stack  |-> <<>>,
             locals |-> params \o LocalsOf(BinarySearchBody.locals),
             br     |-> -1,
             ret    |-> FALSE],
            mem).stack)

\* wasmBinarySearch(arr, n)
wasmBinarySearch(arr, x) == Invoke(<<0, x, 0, Len(arr) - 1>>, MemoryWith(arr))

---------------------------------------------------------------------------
(* The inputs the model calls the functions with *)

\* integers around every group boundary of the encodings
Boundaries ==
    {255, 256, 16383, 16384, 2097151, 2097152, 268435455, 268435456,
     2147483646 + 1, -8192, -8193, -1048576, -1048577, -134217728, -134217729,
     MinInt32 + 1, MinInt32}

IntSamples == (-MaxSmall .. MaxSmall) \cup Boundaries

\* 2^31 .. 2^32-1 (q = 1, r < 0), 2^32 and more (q = 1, r >= 0),
\* and numbers below -2^31 (q = -1)
WideSamples ==
    {Wide(1, r) : r \in {MinInt32, MinInt32 + 1, -129, -128, -1, 0, 5, 127, 128, 300}}
        \cup {Wide(-1, r) : r \in {MinInt32, -1, 0, 64, 2147483646 + 1}}

\* numbers with a fractional part: r + 1/2
FracSamples == {Frac(r) : r \in {-2, -1, 0, 3, 127, 128}}

NumberInputs == {Num(i) : i \in IntSamples} \cup WideSamples \cup FracSamples

ValueTypes == {i32, i64, f32, f64, funcRef, externRef}

LimitBounds == {Num(0), Num(1), Num(200)}
LimitsInputs ==
    {[min |-> a] : a \in LimitBounds}
        \cup {[min |-> a, max |-> b] : a \in LimitBounds, b \in LimitBounds}

\* instructions without nested instructions
LeafA == <<I32Const, Num(5)>>
LeafB == <<LocalGet, Num(11)>>
LeafC == <<LocalGet, Wide(1, MinInt32)>>
Leaves ==
    {LeafA, LeafB, LeafC, <<Drop>>, <<Return>>, <<I32Add>>, <<I32Const, Num(-123)>>,
     <<I32Load, Num(2), Num(300)>>, <<Call, Num(0)>>, <<BrIf, Num(128)>>}

\* the branches without an If in them
LeafSeqs == {<<>>, <<LeafA>>, <<LeafC>>, <<LeafA, LeafB>>}

RECURSIVE Ifs(_)
\* the If instructions nested at most d deep: one branch may hold an If,
\* between two instructions whose immediates are the marker bytes
Ifs(d) ==
    IF d = 0 THEN {}
    ELSE LET inner == LeafSeqs \cup {<<LeafB, x, LeafA>> : x \in Ifs(d - 1)}
         IN  {<<If, i32, a, b>> : a \in inner, b \in LeafSeqs}
                 \cup {<<If, i32, a, b>> : a \in LeafSeqs, b \in inner}

Instructions == Leaves \cup Ifs(MaxDepth)

FuncBodies ==
    {[locals |-> l, instructions |-> is] :
        l \in {<<>>, << <<Num(2), i32>> >>, << <<Num(1), i64>>, <<Num(300), f32>> >>},
        is \in LeafSeqs \cup {<<x>> : x \in Ifs(1)}}
        \cup {BinarySearchBody}

\* the items each element encoder is given
ItemsFor(encodeFn) ==
    CASE encodeFn = "valueType"         -> {i32, i64, funcRef}
      [] encodeFn = "local"             -> {<<Num(2), i32>>, <<Num(300), f64>>}
      [] encodeFn = "encodeLEB128U"     -> {Num(0), Num(127), Num(128)}
      [] encodeFn = "encodeFuncType"    ->
            {[paramTypes |-> <<>>, returnTypes |-> <<>>],
             [paramTypes |-> <<i32, i64>>, returnTypes |-> <<f32>>]}
      [] encodeFn = "encodeLimits"      ->
            {[min |-> Num(1)], [min |-> Num(1), max |-> Num(200)],
             [min |-> Num(0), max |-> Num(0)]}
      [] encodeFn = "encodeExport"      ->
            {[name |-> NameMemory, type |-> Memory, index |-> Num(0)],
             [name |-> <<233>>, type |-> Function, index |-> Num(1)]}
      [] encodeFn = "encodeInstruction" -> {LeafA, LeafB, <<If, i32, <<LeafA>>, <<>> >>}
      [] encodeFn = "encodeFuncBody"    ->
            {[locals |-> <<>>, instructions |-> <<>>], BinarySearchBody}

Encoders ==
    {"valueType", "local", "encodeLEB128U", "encodeFuncType", "encodeLimits",
     "encodeExport", "encodeInstruction", "encodeFuncBody"}

\* the sequences over S of length at most k
SeqsUpTo(S, k) == UNION {[1..m -> S] : m \in 0..k}

SectionIds == {1, 3, 5, 7, 10}

SearchValues == {-4, 0, 2, 8}
SearchTargets == SearchValues \cup {1, 54, 99}

IsSorted(arr) == \A i \in 1..(Len(arr) - 1) : arr[i] <= arr[i + 1]

SortedArrays ==
    {arr \in UNION {[1..m -> SearchValues] : m \in 1..MaxArrLen} : IsSorted(arr)}
        \cup {DemoArray}

---------------------------------------------------------------------------
(* The state machine: one call of one function, from its entry to its    *)
(* return or throw                                                         *)

Init ==
    /\ pc = "idle"
    /\ op = "none"
    /\ args = <<>>
    /\ n = Num(0)
    /\ buffer = <<>>
    /\ work = <<>>
    /\ start = 0
    /\ end = 0
    /\ result = <<>>

\* a call that runs to its return in one step
Returns(name, arguments, value) ==
    /\ pc' = "returned"
    /\ op' = name
    /\ args' = arguments
    /\ result' = value
    /\ n' = Num(0)
    /\ buffer' = <<>>
    /\ work' = <<>>
    /\ start' = 0
    /\ end' = 0

\* a call that enters a loop, or throws
Enters(name, arguments, at, n0, buffer0, work0, start0, end0) ==
    /\ pc' = at
    /\ op' = name
    /\ args' = arguments
    /\ result' = <<>>
    /\ n' = n0
    /\ buffer' = buffer0
    /\ work' = work0
    /\ start' = start0
    /\ end' = end0

\* encodeLEB128U, main.ts:22-26: the integer check, then the empty buffer
CallEncodeLEB128U ==
    /\ pc = "idle"
    /\ \E x \in NumberInputs :
        Enters("encodeLEB128U", <<x>>,
               IF IsInteger(x) THEN "encodeLEB128U" ELSE "thrown",
               x, <<>>, <<>>, 0, 0)

\* encodeLEB128U, main.ts:28-34: one pass of the loop, or the last push and the return
LoopLEB128U ==
    /\ pc = "encodeLEB128U"
    /\ Len(buffer) < MaxBytes
    /\ LET s == LEB128UIter(n, buffer)
       IN  /\ n' = s.n
           /\ buffer' = s.buffer
           /\ pc' = IF s.done THEN "returned" ELSE pc
           /\ result' = IF s.done THEN s.buffer ELSE result
    /\ UNCHANGED <<op, args, work, start, end>>

\* encodeLEB128S, main.ts:40-45: the integer check, the empty buffer, n |= 0
CallEncodeLEB128S ==
    /\ pc = "idle"
    /\ \E x \in NumberInputs :
        Enters("encodeLEB128S", <<x>>,
               IF IsInteger(x) THEN "encodeLEB128S" ELSE "thrown",
               IF IsInteger(x) THEN Num(BitOr(ToInt32(x), 0)) ELSE x,
               <<>>, <<>>, 0, 0)

\* LoopLEB128S with an exit test that forgets the negative numbers
LoopLEB128SNoNegativeExit ==
    /\ pc = "encodeLEB128S"
    /\ Len(buffer) < MaxBytes
    /\ LET s == LEB128SIterNoNegativeExit(n, buffer)
       IN  /\ n' = s.n
           /\ buffer' = s.buffer
           /\ pc' = IF s.done THEN "returned" ELSE pc
           /\ result' = IF s.done THEN s.buffer ELSE result
    /\ UNCHANGED <<op, args, work, start, end>>

\* encodeLEB128S, main.ts:46-54: one pass of the loop
LoopLEB128S ==
    /\ pc = "encodeLEB128S"
    /\ Len(buffer) < MaxBytes
    /\ LET s == LEB128SIter(n, buffer)
       IN  /\ n' = s.n
           /\ buffer' = s.buffer
           /\ pc' = IF s.done THEN "returned" ELSE pc
           /\ result' = IF s.done THEN s.buffer ELSE result
    /\ UNCHANGED <<op, args, work, start, end>>

CallEncodeVector ==
    /\ pc = "idle"
    /\ \E encodeFn \in Encoders :
        \E items \in SeqsUpTo(ItemsFor(encodeFn), MaxItems) :
            Returns("encodeVector", <<items, encodeFn>>, encodeVector(items, encodeFn))

CallEncodeSection ==
    /\ pc = "idle"
    /\ \E id \in SectionIds, encodeFn \in Encoders :
        \E items \in SeqsUpTo(ItemsFor(encodeFn), MaxItems) :
            Returns("encodeSection", <<id, items, encodeFn>>,
                    encodeSection(id, items, encodeFn))

CallEncodeLimits ==
    /\ pc = "idle"
    /\ \E limits \in LimitsInputs :
        Returns("encodeLimits", <<limits>>, encodeLimits(limits))

CallEncodeModule ==
    /\ pc = "idle"
    /\ Returns("encodeModule", <<>>, encodeModule)

\* what is still to be emitted for a sequence of instructions
RECURSIVE Pending(_)
Pending(instructions) ==
    IF instructions = <<>> THEN <<>>
    ELSE << <<"instruction", Head(instructions)>> >> \o Pending(Tail(instructions))

\* encodeInstruction is entered with its one instruction to emit
CallEncodeInstruction ==
    /\ pc = "idle"
    /\ \E instruction \in Instructions :
        Enters("encodeInstruction", <<instruction>>, "encodeInstruction",
               Num(0), <<>>, Pending(<<instruction>>), 0, 0)

\* encodeFuncBody, main.ts:221-228: the locals, then the instructions and the end opcode
CallEncodeFuncBody ==
    /\ pc = "idle"
    /\ \E body \in FuncBodies :
        Enters("encodeFuncBody", <<body>>, "encodeFuncBody",
               Num(0), encodeVector(body.locals, "local"),
               Pending(body.instructions) \o << <<"byte", 11>> >>, 0, 0)

\* encodeInstruction, main.ts:185-217: the next instruction or marker is emitted;
\* an If emits its two leading bytes and leaves its branches and markers to emit
Emit ==
    /\ pc \in {"encodeInstruction", "encodeFuncBody"}
    /\ work # <<>>
    /\ LET item == Head(work)
       IN  IF item[1] = "byte"
           THEN /\ buffer' = Append(buffer, item[2])
                /\ work' = Tail(work)
           ELSE IF item[2][1] = If
           THEN /\ buffer' = buffer \o <<item[2][1], item[2][2]>>
                /\ work' = Pending(item[2][3]) \o << <<"byte", 5>> >>
                               \o Pending(item[2][4]) \o << <<"byte", 11>> >>
                               \o Tail(work)
           ELSE /\ buffer' = buffer \o encodeInstruction(item[2])
                /\ work' = Tail(work)
    /\ UNCHANGED <<pc, op, args, n, start, end, result>>

\* encodeInstruction returns its bytes; encodeFuncBody (main.ts:229) prefixes the length
ReturnEncoded ==
    /\ pc \in {"encodeInstruction", "encodeFuncBody"}
    /\ work = <<>>
    /\ pc' = "returned"
    /\ result' = IF pc = "encodeFuncBody"
                 THEN encodeLEB128U(Num(Len(buffer))) \o buffer
                 ELSE buffer
    /\ UNCHANGED <<op, args, n, buffer, work, start, end>>

CallTsBinarySearch ==
    /\ pc = "idle"
    /\ \E arr \in SortedArrays, x \in SearchTargets :
        \E s \in 0..(Len(arr) - 1) :
            \E e \in s..(Len(arr) - 1) :
                Enters("tsBinarySearch", <<arr, x, s, e>>, "tsBinarySearch",
                       Num(0), <<>>, <<>>, s, e)

\* wasmBinarySearch, main.ts:342-346: the array is written at 0 and the
\* exported function called on the whole of it
CallWasmBinarySearch ==
    /\ pc = "idle"
    /\ \E arr \in SortedArrays, x \in SearchTargets :
           Returns("wasmBinarySearch", <<arr, x>>, wasmBinarySearch(arr, x))

\* one call of tsBinarySearch: it returns, or calls itself with new bounds
StepTsBinarySearch ==
    /\ pc = "tsBinarySearch"
    /\ LET c == BinarySearchCall(args[1], args[2], start, end)
       IN  /\ start' = c.start
           /\ end' = c.end
           /\ pc' = IF c.return THEN "returned" ELSE pc
           /\ result' = IF c.return THEN c.value ELSE result
    /\ UNCHANGED <<op, args, n, buffer, work>>

\* the steps of a call that is running
Step ==
    \/ LoopLEB128U
    \/ LoopLEB128S
    \/ Emit
    \/ ReturnEncoded
    \/ StepTsBinarySearch

Next ==
    \/ CallEncodeLEB128U
    \/ CallEncodeLEB128S
    \/ CallEncodeVector
    \/ CallEncodeSection
    \/ CallEncodeLimits
    \/ CallEncodeModule
    \/ CallEncodeInstruction
    \/ CallEncodeFuncBody
    \/ CallTsBinarySearch
    \/ CallWasmBinarySearch
    \/ Step

Spec == Init /\ [][Next]_vars

\* a call, once made, runs on: JavaScript runs it to completion
LiveSpec == Spec /\ WF_vars(Step)

\* the stepwise encoders return what the recursive definitions give
StepwiseAgrees ==
    /\ (pc = "returned" /\ op = "encodeInstruction")
            => result = encodeInstruction(args[1])
    /\ (pc = "returned" /\ op = "encodeFuncBody")
            => result = encodeFuncBody(args[1])
    /\ (pc = "returned" /\ op = "encodeLEB128U")
            => result = encodeLEB128U(args[1])
    /\ (pc = "returned" /\ op = "encodeLEB128S")
            => result = encodeLEB128S(args[1])

---------------------------------------------------------------------------
(* Reading the encodings back: the LEB128 and instruction formats, used to *)
(* state the round trips                                                   *)

IsByte(b) == b \in 0..255

\* floor(x / 128) as a plain integer, for a whole x below 2^38
MathShiftRight7(x) == x.q * 33554432 + (x.r \div 128)

RECURSIVE UnsignedDecodesTo(_, _)
\* bytes is a well-formed unsigned LEB128 sequence whose groups add up to v
UnsignedDecodesTo(bytes, v) ==
    /\ bytes # <<>>
    /\ IsByte(bytes[1])
    /\ bytes[1] % 128 = v % 128
    /\ IF Len(bytes) = 1
       THEN bytes[1] < 128 /\ v \div 128 = 0
       ELSE bytes[1] >= 128 /\ UnsignedDecodesTo(Tail(bytes), v \div 128)

\* the same for a number x that may be 2^31 or more
UnsignedDecodesToNum(bytes, x) ==
    /\ bytes # <<>>
    /\ IsByte(bytes[1])
    /\ bytes[1] % 128 = x.r % 128
    /\ IF Len(bytes) = 1
       THEN bytes[1] < 128 /\ MathShiftRight7(x) = 0
       ELSE bytes[1] >= 128 /\ UnsignedDecodesTo(Tail(bytes), MathShiftRight7(x))

RECURSIVE SignedDecodesTo(_, _)
\* bytes is a well-formed signed LEB128 sequence that sign-extends to v
SignedDecodesTo(bytes, v) ==
    /\ bytes # <<>>
    /\ IsByte(bytes[1])
    /\ bytes[1] % 128 = v % 128
    /\ IF Len(bytes) = 1
       THEN bytes[1] < 128 /\ v \div 128 = (IF bytes[1] >= 64 THEN -1 ELSE 0)
       ELSE bytes[1] >= 128 /\ SignedDecodesTo(Tail(bytes), v \div 128)

RECURSIVE ShiftedBy7(_, _)
\* v >> (7 * k)
ShiftedBy7(v, k) == IF k = 0 THEN v ELSE ShiftedBy7(v \div 128, k - 1)

\* no byte before the last one already met the stop condition of signed LEB128
StopsAtFirst(bytes, v) ==
    \A k \in 1..(Len(bytes) - 1) :
        LET rest == ShiftedBy7(v, k)
            sign == (bytes[k] % 128) >= 64
        IN  ~((rest = 0 /\ ~sign) \/ (rest = -1 /\ sign))

NoRead == [ok |-> FALSE, value |-> 0, size |-> 0]

RECURSIVE ReadUnsigned(_)
\* the unsigned LEB128 integer at the head of bytes (below 2^31) and its size
ReadUnsigned(bytes) ==
    IF bytes = <<>> \/ ~IsByte(Head(bytes)) THEN NoRead
    ELSE IF bytes[1] < 128 THEN [ok |-> TRUE, value |-> bytes[1], size |-> 1]
    ELSE LET t == ReadUnsigned(Tail(bytes))
         IN  IF ~t.ok \/ t.value >= 16777216 THEN NoRead
             ELSE [ok |-> TRUE, value |-> (bytes[1] - 128) + 128 * t.value,
                   size |-> t.size + 1]

\* the unsigned LEB128 number at the head of bytes (below 2^32) and its size
ReadUnsignedNum(bytes) ==
    IF bytes = <<>> \/ ~IsByte(Head(bytes)) THEN NoRead
    ELSE IF bytes[1] < 128 THEN [ok |-> TRUE, value |-> Num(bytes[1]), size |-> 1]
    ELSE LET t == ReadUnsigned(Tail(bytes))
             low == bytes[1] - 128
         IN  IF ~t.ok \/ t.value >= 33554432 THEN NoRead
             ELSE [ok |-> TRUE,
                   value |-> IF t.value < 16777216
                             THEN Num(low + 128 * t.value)
                             ELSE Wide(1, low + 128 * (t.value - 33554432)),
                   size |-> t.size + 1]

RECURSIVE ReadSigned(_)
\* the signed LEB128 integer at the head of bytes (int32) and its size
ReadSigned(bytes) ==
    IF bytes = <<>> \/ ~IsByte(Head(bytes)) THEN NoRead
    ELSE IF bytes[1] < 128
         THEN [ok |-> TRUE, size |-> 1,
               value |-> IF bytes[1] >= 64 THEN bytes[1] - 128 ELSE bytes[1]]
    ELSE LET t == ReadSigned(Tail(bytes))
         IN  IF ~t.ok \/ t.value >= 16777216 \/ t.value < -16777216 THEN NoRead
             ELSE [ok |-> TRUE, value |-> (bytes[1] - 128) + 128 * t.value,
                   size |-> t.size + 1]

\* bytes without its first k
Drop_(bytes, k) == SubSeq(bytes, k + 1, Len(bytes))

NoTree == [ok |-> FALSE, tree |-> <<>>, rest |-> <<>>]

RECURSIVE DecodeInstruction(_), DecodeSequence(_)

\* the instructions at the head of bytes, up to an else or end marker
DecodeSequence(bytes) ==
    IF bytes = <<>> \/ Head(bytes) \in {5, 11}
    THEN [ok |-> TRUE, tree |-> <<>>, rest |-> bytes]
    ELSE LET a == DecodeInstruction(bytes)
         IN  IF ~a.ok THEN NoTree
             ELSE LET b == DecodeSequence(a.rest)
                  IN  IF ~b.ok THEN NoTree
                      ELSE [ok |-> TRUE, tree |-> <<a.tree>> \o b.tree, rest |-> b.rest]

\* the instruction at the head of bytes, read opcode by opcode
DecodeInstruction(bytes) ==
    IF bytes = <<>> THEN NoTree
    ELSE LET opcode == Head(bytes)
             after  == Tail(bytes)
         IN  CASE opcode \in {I32GtS, I32Eq, I32Add, I32Mul, I32DivU, Return, Drop} ->
                    [ok |-> TRUE, tree |-> <<opcode>>, rest |-> after]
               [] opcode = I32Const ->
                    LET v == ReadSigned(after)
                    IN  IF ~v.ok THEN NoTree
                        ELSE [ok |-> TRUE, tree |-> <<opcode, Num(v.value)>>,
                              rest |-> Drop_(after, v.size)]
               [] opcode \in {LocalGet, LocalSet, LocalTee, BrIf, Call} ->
                    LET v == ReadUnsignedNum(after)
                    IN  IF ~v.ok THEN NoTree
                        ELSE [ok |-> TRUE, tree |-> <<opcode, v.value>>,
                              rest |-> Drop_(after, v.size)]
               [] opcode = I32Load ->
                    LET v == ReadUnsignedNum(after)
                    IN  IF ~v.ok THEN NoTree
                        ELSE LET w == ReadUnsignedNum(Drop_(after, v.size))
                             IN  IF ~w.ok THEN NoTree
                                 ELSE [ok |-> TRUE,
                                       tree |-> <<opcode, v.value, w.value>>,
                                       rest |-> Drop_(after, v.size + w.size)]
               [] opcode = If ->
                    IF after = <<>> THEN NoTree
                    ELSE LET thenPart == DecodeSequence(Tail(after))
                         IN  IF ~thenPart.ok \/ thenPart.rest = <<>> THEN NoTree
                             ELSE IF Head(thenPart.rest) # 5 THEN NoTree
                             ELSE LET elsePart == DecodeSequence(Tail(thenPart.rest))
                                  IN  IF ~elsePart.ok \/ elsePart.rest = <<>> THEN NoTree
                                      ELSE IF Head(elsePart.rest) # 11 THEN NoTree
                                      ELSE [ok |-> TRUE,
                                            tree |-> <<opcode, Head(after),
                                                       thenPart.tree, elsePart.tree>>,
                                            rest |-> Tail(elsePart.rest)]
               [] OTHER -> NoTree

NoSections == [ok |-> FALSE, ids |-> <<>>, payloads |-> <<>>]

RECURSIVE ReadSections(_)
\* bytes as a run of sections [id][LEB128U length][payload], consumed to the end
ReadSections(bytes) ==
    IF bytes = <<>> THEN [ok |-> TRUE, ids |-> <<>>, payloads |-> <<>>]
    ELSE LET length == ReadUnsigned(Tail(bytes))
         IN  IF ~length.ok \/ 1 + length.size + length.value > Len(bytes)
             THEN NoSections
             ELSE LET payload == SubSeq(bytes, 2 + length.size,
                                        1 + length.size + length.value)
                      more == ReadSections(Drop_(bytes, 1 + length.size + length.value))
                  IN  IF ~more.ok THEN NoSections
                      ELSE [ok |-> TRUE, ids |-> <<Head(bytes)>> \o more.ids,
                            payloads |-> <<payload>> \o more.payloads]

---------------------------------------------------------------------------
(* The claims *)

Returned(name) == pc = "returned" /\ op = name

\* a whole number in 0 .. 2^32-1
IsUint32(x) == IsInteger(x) /\ ((x.q = 0 /\ x.r >= 0) \/ (x.q = 1 /\ x.r < 0))

\* a whole number in -2^31 .. 2^31-1
IsInt32(x) == IsInteger(x) /\ x.q = 0

\* every byte but the last has the continuation bit 0x80, the last has not
ContinuationBits(bytes) ==
    /\ bytes # <<>>
    /\ \A k \in 1..Len(bytes) :
          IsByte(bytes[k]) /\ ((bytes[k] >= 128) <=> (k < Len(bytes)))

\* C1: for every whole n with 0 <= n < 2^32, the bytes encodeLEB128U(n) returns
\* are all in 0..255, carry the continuation bit on every byte but the last,
\* and decode as unsigned LEB128 to n.
C1_UnsignedRoundTrip ==
    (Returned("encodeLEB128U") /\ IsUint32(args[1]))
        => /\ \A k \in 1..Len(result) : IsByte(result[k])
           /\ ContinuationBits(result)
           /\ UnsignedDecodesToNum(result, args[1])

\* the round trip of encodeLEB128U where n >> 7 is what a division by 128 is:
\* 0 <= n < 2^31
UnsignedRoundTripBelow2p31 ==
    (Returned("encodeLEB128U") /\ IsInt32(args[1]) /\ args[1].r >= 0)
        => /\ ContinuationBits(result)
           /\ UnsignedDecodesToNum(result, args[1])

\* C2: for every whole n in the int32 range, the bytes encodeLEB128S(n) returns
\* decode as signed LEB128 to n and stop at the first byte that meets the stop
\* condition; 0, -1, 64 and -123 encode as [00], [7f], [c0 00] and [85 7f].
C2_SignedRoundTrip ==
    (Returned("encodeLEB128S") /\ IsInt32(args[1]))
        => /\ ContinuationBits(result)
           /\ SignedDecodesTo(result, args[1].r)
           /\ StopsAtFirst(result, args[1].r)
           /\ (args[1].r = 0 => result = <<0>>)
           /\ (args[1].r = -1 => result = <<127>>)
           /\ (args[1].r = 64 => result = <<192, 0>>)
           /\ (args[1].r = -123 => result = <<133, 127>>)

C2_Witness ==
    /\ Returned("encodeLEB128S")
    /\ args[1] = Num(-123)
    /\ result = <<133, 127>>

\* C3: encodeLEB128U called with a negative integer or with a fractional
\* number throws: it never returns a byte sequence.
C3_UnsignedRejects ==
    (op = "encodeLEB128U" /\ (~IsInteger(args[1]) \/ args[1].q < 0
                                \/ (args[1].q = 0 /\ args[1].r < 0)))
        => pc # "returned" /\ result = <<>>

\* what does hold: the fractional numbers are the ones encodeLEB128U throws on
UnsignedThrowsOnFractions ==
    op = "encodeLEB128U" => ((pc = "thrown") <=> ~IsInteger(args[1]))

\* C4 as stated: encodeSection(1, [], f) is [0x01, 0x00] for every encoder f.
C4_EmptySectionIsIdAndZero ==
    (Returned("encodeSection") /\ args[1] = 1 /\ args[2] = <<>>)
        => result = <<1, 0>>

\* C4 as amended: encodeSection(1, [], f) is [0x01, 0x01, 0x00] for every
\* encoder f: the id, the length 1 of the payload, and the payload, which is the
\* count 0 of the empty vector.
C4_EmptySection ==
    (Returned("encodeSection") /\ args[1] = 1 /\ args[2] = <<>>)
        => result = <<1, 1, 0>>

C4_Witness ==
    /\ Returned("encodeSection")
    /\ args[1] = 1
    /\ args[2] = <<>>
    /\ args[3] = "encodeFuncType"

\* C5: encodeLimits gives flag 1, min and max exactly when the Limits has a
\* maximum (a maximum of 0 too), and flag 0 and min exactly when it has none.
C5_LimitsFlag ==
    Returned("encodeLimits")
        => LET limits == args[1]
           IN  IF "max" \in DOMAIN limits
               THEN result = <<1>> \o encodeLEB128U(limits.min)
                                   \o encodeLEB128U(limits.max)
               ELSE result = <<0>> \o encodeLEB128U(limits.min)

\* C6: the bytes of encodeModule are the 8 bytes of the preamble and then only
\* sections [id][LEB128U length][payload], each length counting the payload
\* alone, with the ids 1, 3, 5, 7, 10 in this order and nothing left over.
C6_ModuleFraming ==
    Returned("encodeModule")
        => /\ Len(result) > 8
           /\ SubSeq(result, 1, 8) = <<0, 97, 115, 109, 1, 0, 0, 0>>
           /\ LET sections == ReadSections(Drop_(result, 8))
              IN  /\ sections.ok
                  /\ sections.ids = <<1, 3, 5, 7, 10>>
                  \* each payload is a vector: it starts with its count
                  /\ <<sections.payloads[1][1], sections.payloads[2][1],
                       sections.payloads[3][1], sections.payloads[4][1],
                       sections.payloads[5][1]>> = <<1, 1, 1, 2, 1>>
                  \* the exports: "binarySearch" and "memory", each length-prefixed
                  /\ sections.payloads[4] =
                        <<2, 12>> \o NameBinarySearch \o <<0, 0>>
                            \o <<6>> \o NameMemory \o <<2, 0>>

C6_Witness ==
    /\ Returned("encodeModule")
    /\ Len(result) > 8
    /\ ReadSections(Drop_(result, 8)).ok

\* C7: reading the bytes of encodeInstruction back opcode by opcode, with the
\* else and end markers of every If matched at its depth, gives the
\* instruction tree that was encoded.
C7_InstructionRoundTrip ==
    (Returned("encodeInstruction") /\ args[1][1] = If)
        => LET d == DecodeInstruction(result)
           IN  d.ok /\ d.rest = <<>> /\ d.tree = args[1]

\* the same where every byte emitted is a byte (no immediate of 2^31 or more)
InstructionRoundTripOfBytes ==
    (Returned("encodeInstruction") /\ \A k \in 1..Len(result) : IsByte(result[k]))
        => LET d == DecodeInstruction(result)
           IN  d.ok /\ d.rest = <<>> /\ d.tree = args[1]

RECURSIVE OffsetOf(_, _, _)
\* how many bytes the first k items take when each is encoded by encodeFn
OffsetOf(items, encodeFn, k) ==
    IF k = 0 THEN 0
    ELSE OffsetOf(items, encodeFn, k - 1) + Len(Apply(encodeFn, items[k]))

\* C8: encodeVector(items, f) is encodeLEB128U(items.length) and then f(item)
\* of every item, in the order of the items, none left out or repeated; for the
\* empty list it is [0x00].
C8_VectorLayout ==
    Returned("encodeVector")
        => LET items == args[1]
               encodeFn == args[2]
               count == encodeLEB128U(Num(Len(items)))
           IN  /\ SubSeq(result, 1, Len(count)) = count
               /\ Len(result) = Len(count) + OffsetOf(items, encodeFn, Len(items))
               /\ \A k \in 1..Len(items) :
                     SubSeq(result,
                            Len(count) + OffsetOf(items, encodeFn, k - 1) + 1,
                            Len(count) + OffsetOf(items, encodeFn, k))
                         = Apply(encodeFn, items[k])
               /\ (items = <<>> => result = <<0>>)

C8_Witness ==
    /\ Returned("encodeVector")
    /\ args[2] = "encodeLimits"
    /\ Len(args[1]) = 2
    /\ args[1][1] # args[1][2]

Encoding == pc \in {"encodeLEB128U", "encodeLEB128S", "encodeInstruction", "encodeFuncBody"}

\* C9: every call of encodeLEB128U, encodeLEB128S, encodeInstruction and
\* encodeFuncBody that has started returns.
C9_EncodersTerminate == Encoding ~> (pc = "returned")

C9_Witness ==
    /\ Returned("encodeLEB128S")
    /\ args[1] = Num(MinInt32)
    /\ Len(result) = 5

\* C10: on a sorted array and bounds 0 <= start <= end < length tsBinarySearch
\* returns an index in start..end that holds n when n is in arr[start..end],
\* and -1 when it is not.
C10_BinarySearchFinds ==
    /\ Returned("tsBinarySearch")
          => LET arr == args[1]
                 x == args[2]
                 s == args[3]
                 e == args[4]
             IN  IF \E i \in s..e : At(arr, i) = x
                 THEN result \in s..e /\ At(arr, result) = x
                 ELSE result = -1
    /\ Returned("wasmBinarySearch")
          => LET arr == args[1]
                 x == args[2]
             IN  IF \E i \in 0..(Len(arr) - 1) : At(arr, i) = x
                 THEN result \in 0..(Len(arr) - 1) /\ At(arr, result) = x
                 ELSE result = -1

\* the exported function returns what tsBinarySearch returns
WasmMirrorsTs ==
    Returned("wasmBinarySearch")
        => result = tsBinarySearch(args[1], args[2], 0, Len(args[1]) - 1)

\* C10 for the exported function alone
WasmBinarySearchFinds ==
    Returned("wasmBinarySearch")
        => LET arr == args[1]
               x == args[2]
           IN  IF \E i \in 0..(Len(arr) - 1) : At(arr, i) = x
               THEN result \in 0..(Len(arr) - 1) /\ At(arr, result) = x
               ELSE result = -1

\* what does hold of tsBinarySearch: an index it returns holds n, and it
\* returns -1 when n is not in arr[start..end]
BinarySearchSound ==
    Returned("tsBinarySearch")
        => LET arr == args[1]
               x == args[2]
           IN  /\ result # -1 => (result \in args[3]..args[4] /\ At(arr, result) = x)
               /\ (~\E i \in args[3]..args[4] : At(arr, i) = x) => result = -1
               /\ result = tsBinarySearch(arr, x, args[3], args[4])

\* the two calls of main.ts' demonstration array named by the specification
BinarySearchDemo ==
    /\ (Returned("tsBinarySearch") /\ args[1] = DemoArray /\ args[3] = 0 /\ args[4] = 7)
          => /\ args[2] = 0 => result = 2
             /\ args[2] = 99 => result = -1
    /\ (Returned("wasmBinarySearch") /\ args[1] = DemoArray)
          => /\ args[2] = 0 => result = 2
             /\ args[2] = 99 => result = -1

\* every call of tsBinarySearch returns
BinarySearchTerminates == (pc = "tsBinarySearch") ~> (pc = "returned")

====
